---- MODULE Spec2Model ----
(***************************************************************************)
(* The global-script page of src/iife/foo.js (getUrl / createTodo) and the *)
(* successive script versions written out in src/DRAFT.md (top-level var   *)
(* url, the todo object literal, the todo IIFE, the single-script IIFE     *)
(* with renderTodos / allTodos).                                           *)
(*                                                                         *)
(* JavaScript runs every script and every function call to completion, so  *)
(* each script execution, call and event delivery is one atomic action.    *)
(***************************************************************************)
EXTENDS Integers, Sequences, FiniteSets, TLC

VARIABLES
    globals,     \* the global object: name -> value
    reqs,        \* every XMLHttpRequest constructed so far, in creation order
    last,        \* what the most recent call did: function run, argument, outcome
    todoScope,   \* local scope of the  var todo = (function(){...})()  invocation
    finalScope,  \* local scope of the single-script  (function(){...})()  invocation
    todoList,    \* children of the #todo-list element, in document order
    ul0,         \* children #todo-list had when the page was built
    renderLog    \* arguments of the renderTodos calls made so far

vars == <<globals, reqs, last, todoScope, finalScope, todoList, ul0, renderLog>>

-----------------------------------------------------------------------------
(* Bounds *)

MaxCalls == 2     \* XMLHttpRequest objects constructed in one behaviour
MaxDraftCalls == 1 \* the same, on the page built from the DRAFT.md scripts
MaxTodos == 2     \* length of a todos sequence handed to renderTodos
MaxRenders == 2   \* renderTodos calls in one behaviour

Titles == {"milk", " a b&c=d "}
Texts == {"x", "y"}

-----------------------------------------------------------------------------
(* JavaScript values and scopes *)

Names == {"url", "getUrl", "createTodo", "reqListener", "todo", "renderTodos", "allTodos"}

Undeclared == [k |-> "undeclared", v |-> ""]
Str(s) == [k |-> "string", v |-> s]
Fn(f) == [k |-> "function", v |-> f]
Obj(id) == [k |-> "object", v |-> id]

EmptyScope == [n \in Names |-> Undeclared]

\* var name = value / function name () {}  executed in `scope`
Declare(scope, name, value) == [scope EXCEPT ![name] = value]

\* a sequence of declarations <<name, value>> executed in order in `scope`
RECURSIVE DeclareAll(_, _)
DeclareAll(scope, decls) ==
    IF decls = <<>> THEN scope
    ELSE DeclareAll(Declare(scope, Head(decls)[1], Head(decls)[2]), Tail(decls))

\* variant: the outermost (global) scope wins over the local one
Resolve_globalFirst(name, chain) ==
    IF chain = <<>> THEN Undeclared
    ELSE IF chain[Len(chain)][name] # Undeclared THEN chain[Len(chain)][name]
    ELSE chain[1][name]

\* identifier lookup: the innermost scope of `chain` that declares `name`
RECURSIVE Resolve(_, _)
Resolve(name, chain) ==
    IF chain = <<>> THEN Undeclared
    ELSE IF Head(chain)[name] # Undeclared THEN Head(chain)[name]
    ELSE Resolve(name, Tail(chain))

-----------------------------------------------------------------------------
(* XMLHttpRequest, as far as the call sites use it *)

\* new XMLHttpRequest()
XhrNew(by, title) ==
    [by |-> by, title |-> title, log |-> <<"new">>, readyState |-> 0,
     method |-> "", url |-> "", listener |-> "", sent |-> FALSE, loaded |-> FALSE,
     calledWith |-> Undeclared]

\* req.addEventListener("load", cb)
XhrAddEventListener(x, cb) ==
    [x EXCEPT !.log = Append(@, "addEventListener"), !.listener = cb.v]

\* req.open(method, url)
XhrOpen(x, method, url) ==
    [x EXCEPT !.log = Append(@, "open"), !.method = method, !.url = url,
              !.readyState = 1]

\* req.send(): an InvalidStateError unless the request is opened and unsent
XhrSendOk(x) == x.readyState = 1 /\ ~x.sent
XhrSend(x) == [x EXCEPT !.log = Append(@, "send"), !.sent = TRUE]

-----------------------------------------------------------------------------
(* src/iife/foo.js *)

\* variant: getUrl returning the global url (the  url + ...  form of DRAFT.md line 28)
getUrl_readsUrl(g) ==
    [ret |-> IF g["url"].k = "string" THEN g["url"].v ELSE "/todos", globals |-> g]

\* function getUrl () { return "/todos"; }   called with the globals g in force
getUrl(g) == [ret |-> "/todos", globals |-> g]

\* getUrl = () => '/oops'   (DRAFT.md: the reassignment other scripts can make)
oops(g) == [ret |-> "/oops", globals |-> g]

\* variant: the call site bound to foo.js's getUrl once and for all
CallGetUrl_earlyBound(g) == getUrl(g)

\* the call  getUrl()  made at a call site: whatever the global is bound to now
CallGetUrlBinding(g) ==
    LET f == Resolve("getUrl", <<g>>) IN
    IF f = Fn("getUrl") THEN getUrl(g)
    ELSE IF f = Fn("oops") THEN oops(g)
    ELSE [ret |-> "TypeError", globals |-> g]

IsCallable(g, name) == Resolve(name, <<g>>).k = "function"

\* variant: the title trimmed before it is appended
TitleQuery_trimmed(title) == "?title=" \o (IF title = " a b&c=d " THEN "a b&c=d" ELSE title)

\* "?title=" + title
TitleQuery(title) == "?title=" \o title

\* variant: a missing reqListener passed on as undefined instead of throwing
createTodo_noListenerLookup(title, g) ==
    LET r0 == XhrNew("createTodo", title)
        r1 == XhrAddEventListener(r0, Resolve("reqListener", <<g>>))
        r2 == XhrOpen(r1, "POST", CallGetUrlBinding(g).ret \o TitleQuery(title))
    IN  [req |-> XhrSend(r2), result |-> "returned"]

\* function createTodo(title) { ... }  lines 6-11, run to completion
createTodo(title, g) ==
    LET r0 == XhrNew("createTodo", title)                              \* line 7
        cb == Resolve("reqListener", <<g>>)                            \* line 8
        r1 == XhrAddEventListener(r0, cb)
        u  == CallGetUrlBinding(g)                                     \* line 9
        r2 == XhrOpen(r1, "POST", u.ret \o TitleQuery(title))
    IN  IF cb = Undeclared THEN [req |-> r0, result |-> "ReferenceError"]
        ELSE IF ~IsCallable(g, "getUrl") THEN [req |-> r1, result |-> "TypeError"]
        ELSE IF ~XhrSendOk(r2) THEN [req |-> r2, result |-> "InvalidStateError"]
        ELSE [req |-> XhrSend(r2), result |-> "returned"]             \* line 10

-----------------------------------------------------------------------------
(* The page that has loaded src/iife/foo.js *)

NoCall == [fn |-> "", arg |-> "", result |-> ""]

\* foo.js executed as a top-level script: both function declarations are globals
FooScript == << <<"getUrl", Fn("getUrl")>>, <<"createTodo", Fn("createTodo")>> >>

Init ==
    /\ globals = DeclareAll(EmptyScope, FooScript)
    /\ reqs = <<>>
    /\ last = NoCall
    /\ todoScope = EmptyScope
    /\ finalScope = EmptyScope
    /\ todoList = <<>>
    /\ ul0 = <<>>
    /\ renderLog = <<>>

\* what another script may plausibly assign to each global
Assignable(name) ==
    CASE name = "url" -> {Str("/todos"), Str("/oops")}
      [] name = "getUrl" -> {Fn("getUrl"), Fn("oops")}
      [] name = "createTodo" -> {Fn("stub")}
      [] name = "reqListener" -> {Fn("reqListener")}
      [] name = "todo" -> {Str("overwritten")}
      [] OTHER -> {}

\* another script:  name = v   (DRAFT.md line 46 is the getUrl instance)
AssignGlobal(name, v) ==
    /\ globals' = [globals EXCEPT ![name] = v]
    /\ UNCHANGED <<reqs, last, todoScope, finalScope, todoList, ul0, renderLog>>

\* some script evaluates  getUrl()
CallGetUrl ==
    /\ IsCallable(globals, "getUrl")
    /\ LET r == CallGetUrlBinding(globals) IN
        /\ globals' = r.globals
        /\ last' = [fn |-> globals["getUrl"].v, arg |-> "", result |-> r.ret]
    /\ UNCHANGED <<reqs, todoScope, finalScope, todoList, ul0, renderLog>>

\* some script evaluates  createTodo(title)  with foo.js's function still bound
CallCreateTodo(title) ==
    /\ Len(reqs) < MaxCalls
    /\ globals["createTodo"] = Fn("createTodo")
    /\ LET r == createTodo(title, globals) IN
        /\ reqs' = Append(reqs, [r.req EXCEPT !.calledWith = globals["getUrl"]])
        /\ last' = [fn |-> "createTodo", arg |-> title, result |-> r.result]
    /\ UNCHANGED <<globals, todoScope, finalScope, todoList, ul0, renderLog>>

\* some script evaluates  createTodo(title)  after createTodo was reassigned
CallReplacedCreateTodo(title) ==
    /\ globals["createTodo"] = Fn("stub")
    /\ last' = [fn |-> "stub", arg |-> title, result |-> "returned"]
    /\ UNCHANGED <<globals, reqs, todoScope, finalScope, todoList, ul0, renderLog>>

\* the response of request i arrives: its load event runs the registered listener
Load(i) ==
    /\ reqs[i].sent /\ ~reqs[i].loaded
    /\ reqs[i].listener # ""
    /\ reqs' = [reqs EXCEPT ![i].loaded = TRUE]
    /\ UNCHANGED <<globals, last, todoScope, finalScope, todoList, ul0, renderLog>>

FooNames == {"url", "getUrl", "createTodo", "reqListener"}

Next ==
    \/ \E name \in FooNames : \E v \in Assignable(name) : AssignGlobal(name, v)
    \/ CallGetUrl
    \/ \E title \in Titles : CallCreateTodo(title)
    \/ \E title \in Titles : CallReplacedCreateTodo(title)
    \/ \E i \in 1..Len(reqs) : Load(i)

Spec == Init /\ [][Next]_vars

-----------------------------------------------------------------------------
(* src/DRAFT.md: the script versions of the walk-through *)

\* a script body run at the top level: its declarations land on the global object
ExecTopLevel(decls, g) == [globals |-> DeclareAll(g, decls), locals |-> EmptyScope]

\* the same body run inside  (function() { ... })() : a fresh local scope
ExecFunctionBody(decls, g) == [globals |-> g, locals |-> DeclareAll(EmptyScope, decls)]

\* { k1 () {}, k2 () {}, ... } : members are defined in order, a repeated key
\* redefines the property
NoObject == [key \in {} |-> ""]
DefineProperty(obj, key, m) ==
    [k \in (DOMAIN obj) \cup {key} |-> IF k = key THEN m ELSE obj[k]]
RECURSIVE ObjectLiteral(_, _)
ObjectLiteral(obj, members) ==
    IF members = <<>> THEN obj
    ELSE ObjectLiteral(DefineProperty(obj, Head(members)[1], Head(members)[2]),
                       Tail(members))

\* the members of the todo literal, as written (lines 72-75, 85-88, 100-103)
TodoMembers ==
    << <<"create", "member1">>, <<"get", "member2">>,
       <<"update", "member3">>, <<"get", "member4">> >>

\* the properties of a todo object
TodoProps == ObjectLiteral(NoObject, TodoMembers)

\* lines 19-31: var url = "/todos"; function createTodo(title) {...}
DraftFooScript ==
    << <<"url", Str("/todos")>>, <<"createTodo", Fn("createTodoDraft")>> >>

\* lines 25-30: createTodo reading the top-level url
createTodoDraft(title, g) ==
    LET r0 == XhrNew("createTodoDraft", title)
        cb == Resolve("reqListener", <<g>>)
        r1 == XhrAddEventListener(r0, cb)
        u  == Resolve("url", <<g>>)
        r2 == XhrOpen(r1, "POST", u.v \o TitleQuery(title))
    IN  IF cb = Undeclared THEN [req |-> r0, result |-> "ReferenceError"]
        ELSE IF u = Undeclared THEN [req |-> r1, result |-> "ReferenceError"]
        ELSE IF ~XhrSendOk(r2) THEN [req |-> r2, result |-> "InvalidStateError"]
        ELSE [req |-> XhrSend(r2), result |-> "returned"]

\* lines 67-77: var url = "/todos"; var todo = { ... }
TodoObjectScript == << <<"url", Str("/todos")>>, <<"todo", Obj("todo@71")>> >>

\* lines 82-90: var todo = (function() { var url = "/todos"; return {...} })()
RunTodoIIFE(g) ==
    LET call == ExecFunctionBody(<< <<"url", Str("/todos")>> >>, g) IN
    [globals |-> Declare(call.globals, "todo", Obj("todo@84")), locals |-> call.locals]

\* lines 96-121: (function() { var url; var todo; function renderTodos;
\* function allTodos })()  -- declarations only, nothing is called or returned
FinalBody ==
    << <<"url", Str("/todos")>>, <<"todo", Obj("todo@99")>>,
       <<"renderTodos", Fn("renderTodos")>>, <<"allTodos", Fn("allTodos")>> >>

\* variant: the same body without the function wrapper
RunFinalIIFE_noWrapper(g) == ExecTopLevel(FinalBody, g)

\* the single-script IIFE, run on a page whose globals are g
RunFinalIIFE(g) == ExecFunctionBody(FinalBody, g)

\* the scopes a method of todo object `id` resolves identifiers in
ScopeChain(id) ==
    IF id = "todo@84" THEN <<todoScope, globals>>
    ELSE IF id = "todo@99" THEN <<finalScope, globals>>
    ELSE <<globals>>

-----------------------------------------------------------------------------
(* The page built from the DRAFT.md scripts *)

InitDraft ==
    /\ globals = EmptyScope
    /\ reqs = <<>>
    /\ last = NoCall
    /\ todoScope = EmptyScope
    /\ finalScope = EmptyScope
    /\ todoList = <<>>
    /\ ul0 = <<>>
    /\ renderLog = <<>>

LoadDraftFoo ==
    /\ globals' = ExecTopLevel(DraftFooScript, globals).globals
    /\ UNCHANGED <<reqs, last, todoScope, finalScope, todoList, ul0, renderLog>>

LoadTodoObject ==
    /\ globals' = ExecTopLevel(TodoObjectScript, globals).globals
    /\ UNCHANGED <<reqs, last, todoScope, finalScope, todoList, ul0, renderLog>>

LoadTodoIIFE ==
    /\ LET r == RunTodoIIFE(globals) IN
        /\ globals' = r.globals
        /\ todoScope' = r.locals
    /\ UNCHANGED <<reqs, last, finalScope, todoList, ul0, renderLog>>

LoadFinalIIFE ==
    /\ LET r == RunFinalIIFE(globals) IN
        /\ globals' = r.globals
        /\ finalScope' = r.locals
    /\ UNCHANGED <<reqs, last, todoScope, todoList, ul0, renderLog>>

\* some script evaluates  createTodo(title)  with the DRAFT.md function bound
CallCreateTodoDraft(title) ==
    /\ Len(reqs) < MaxDraftCalls
    /\ globals["createTodo"] = Fn("createTodoDraft")
    /\ LET r == createTodoDraft(title, globals) IN
        /\ reqs' = Append(reqs, [r.req EXCEPT !.calledWith = globals["url"]])
        /\ last' = [fn |-> "createTodoDraft", arg |-> title, result |-> r.result]
    /\ UNCHANGED <<globals, todoScope, finalScope, todoList, ul0, renderLog>>

\* some script evaluates  todo[key](...) : the methods, as written, have an
\* empty body ( /* ... */ ), so an existing method reads nothing and returns
\* undefined
MethodKeys == {"create", "get", "update", "delete"}
CallTodoMethod(key) ==
    /\ LET t == Resolve("todo", <<globals>>) IN
        last' = [fn |-> "todo." \o key, arg |-> t.v,
                 result |-> IF t = Undeclared THEN "ReferenceError"
                            ELSE IF t.k = "object" /\ key \in DOMAIN TodoProps
                            THEN "undefined"
                            ELSE "TypeError"]
    /\ UNCHANGED <<globals, reqs, todoScope, finalScope, todoList, ul0, renderLog>>

DraftNames == {"url", "reqListener", "todo"}

NextDraft ==
    \/ LoadDraftFoo
    \/ LoadTodoObject
    \/ LoadTodoIIFE
    \/ LoadFinalIIFE
    \/ \E name \in DraftNames : \E v \in Assignable(name) : AssignGlobal(name, v)
    \/ \E title \in Titles : CallCreateTodoDraft(title)
    \/ \E key \in MethodKeys : CallTodoMethod(key)
    \/ \E i \in 1..Len(reqs) : Load(i)

SpecDraft == InitDraft /\ [][NextDraft]_vars

\* the browser runs every script of the page and delivers the load event of
\* every request that was sent
FairDraft ==
    /\ SpecDraft
    /\ WF_vars(LoadFinalIIFE)
    /\ WF_vars(\E i \in 1..Len(reqs) : Load(i))

-----------------------------------------------------------------------------
(* src/DRAFT.md lines 106-120: the functions local to the single-script IIFE *)

Li(text) == [tag |-> "li", innerText |-> text]

\* for (var i = 0; i < todos.length; i++) { createElement; innerText; appendChild }
\* (sequences are 1-based here: i counts from 1)
RECURSIVE renderLoop(_, _, _)
renderLoop(ul, todos, i) ==
    IF ~(i <= Len(todos)) THEN ul
    ELSE renderLoop(Append(ul, Li(todos[i].text)), todos, i + 1)

\* variant: the list emptied before the items are appended
renderTodos_replace(ul, todos) == renderLoop(<<>>, todos, 1)

\* function renderTodos (todos): ul is the child list of #todo-list
renderTodos(ul, todos) == renderLoop(ul, todos, 1)

\* function allTodos (): constructs a request and sets its onreadystatechange
\* handler; it neither opens nor sends the request
allTodos ==
    [req |-> [XhrNew("allTodos", "") EXCEPT !.listener = "onreadystatechange"],
     result |-> "returned"]

TodoSeqs == UNION {[1..n -> {[text |-> t] : t \in Texts}] : n \in 0..MaxTodos}

\* the page after the single-script IIFE ran, #todo-list holding what the
\* document gave it; the two local functions are then invoked directly
InitFns ==
    /\ globals = RunFinalIIFE(EmptyScope).globals
    /\ finalScope = RunFinalIIFE(EmptyScope).locals
    /\ reqs = <<>>
    /\ last = NoCall
    /\ todoScope = EmptyScope
    /\ ul0 \in {<<>>, <<Li("old")>>}
    /\ todoList = ul0
    /\ renderLog = <<>>

CallRenderTodos(todos) ==
    /\ Len(renderLog) < MaxRenders
    /\ todoList' = renderTodos(todoList, todos)
    /\ renderLog' = Append(renderLog, todos)
    /\ last' = [fn |-> "renderTodos", arg |-> "", result |-> "returned"]
    /\ UNCHANGED <<globals, reqs, todoScope, finalScope, ul0>>

CallAllTodos ==
    /\ Len(reqs) < MaxCalls
    /\ reqs' = Append(reqs, allTodos.req)
    /\ last' = [fn |-> "allTodos", arg |-> "", result |-> allTodos.result]
    /\ UNCHANGED <<globals, todoScope, finalScope, todoList, ul0, renderLog>>

NextFns ==
    \/ \E todos \in TodoSeqs : CallRenderTodos(todos)
    \/ CallAllTodos

SpecFns == InitFns /\ [][NextFns]_vars

-----------------------------------------------------------------------------
(* Properties *)

FullLog == <<"new", "addEventListener", "open", "send">>
Opened(r) == \E j \in 1..Len(r.log) : r.log[j] = "open"
Newest(rs) == rs[Len(rs)]
Created == Len(reqs') = Len(reqs) + 1

\* C1: every createTodo(title) call constructs one XMLHttpRequest and performs
\* on it addEventListener, open and send, once each and in that order.
C1_SingleRequestPerCall ==
    \A i \in 1..Len(reqs) :
        reqs[i].by = "createTodo" => reqs[i].log = FullLog /\ reqs[i].sent

\* C2: the request createTodo(title) opens is a POST to the value getUrl()
\* returned at the call, then "?title=", then title exactly as passed; with
\* foo.js's own getUrl bound that is "/todos?title=" + title.
C2_PostToUrlPlusTitle ==
    \A i \in 1..Len(reqs) :
        (reqs[i].by = "createTodo" /\ Opened(reqs[i])) =>
            /\ reqs[i].method = "POST"
            /\ reqs[i].calledWith = Fn("getUrl") =>
                    reqs[i].url = "/todos?title=" \o reqs[i].title
            /\ reqs[i].calledWith = Fn("oops") =>
                    reqs[i].url = "/oops?title=" \o reqs[i].title
            /\ reqs[i].calledWith \in {Fn("getUrl"), Fn("oops")}

C2_Witness ==
    \E i \in 1..Len(reqs) :
        /\ reqs[i].by = "createTodo"
        /\ reqs[i].calledWith = Fn("getUrl")
        /\ reqs[i].title = " a b&c=d "
        /\ reqs[i].method = "POST"
        /\ reqs[i].url = "/todos?title= a b&c=d "

\* C3: while the global getUrl is still foo.js's function, a call getUrl()
\* returns "/todos" whatever the other globals hold and whatever was called
\* before, and the call changes neither the globals nor any request.
C3_GetUrlReadOnly ==
    [][(CallGetUrl /\ globals["getUrl"] = Fn("getUrl")) =>
            /\ last'.result = "/todos"
            /\ globals' = globals
            /\ reqs' = reqs]_vars

C3_Witness ==
    /\ last = [fn |-> "getUrl", arg |-> "", result |-> "/todos"]
    /\ globals["url"] = Str("/oops")
    /\ globals["reqListener"] # Undeclared
    /\ Len(reqs) > 0

\* C4: the globals are mutable: a createTodo call made while getUrl is bound
\* to the replacement opens "/oops?title=" + title, one made while the
\* original is bound opens "/todos?title=" + title, and once createTodo itself
\* is reassigned a call no longer runs foo.js's function (no request is made).
C4_GlobalsAreMutable ==
    [][/\ (Created /\ Opened(Newest(reqs'))) =>
            Newest(reqs').url =
                (IF globals["getUrl"] = Fn("oops") THEN "/oops" ELSE "/todos")
                    \o "?title=" \o Newest(reqs').title
       /\ globals["createTodo"] # Fn("createTodo") => Len(reqs') = Len(reqs)]_vars

C4_Witness ==
    /\ Len(reqs) = 2
    /\ reqs[1].url = "/todos?title=milk"
    /\ reqs[2].url = "/oops?title=milk"
    /\ globals["createTodo"] = Fn("stub")
    /\ last = [fn |-> "stub", arg |-> "milk", result |-> "returned"]

\* C5: url declared inside the todo IIFE is local: whatever is assigned to
\* globals (a global url included), the IIFE's own url stays "/todos" and is
\* what the identifier url resolves to in the scope of the returned object's
\* methods; the createTodo of the top-level  var url  version uses whatever
\* the global url holds when it is called.
C5_IifeUrlIsLocal ==
    /\ todoScope # EmptyScope =>
        /\ todoScope["url"] = Str("/todos")
        /\ Resolve("url", ScopeChain("todo@84")) = Str("/todos")
    /\ \A i \in 1..Len(reqs) :
        (reqs[i].by = "createTodoDraft" /\ Opened(reqs[i])) =>
            reqs[i].url = reqs[i].calledWith.v \o "?title=" \o reqs[i].title

C5_Witness ==
    /\ globals["url"] = Str("/oops")
    /\ globals["todo"] = Obj("todo@84")
    /\ todoScope # EmptyScope
    /\ last = [fn |-> "todo.get", arg |-> "todo@84", result |-> "undefined"]
    /\ \E i \in 1..Len(reqs) : reqs[i].url = "/oops?title=milk"

\* C6: once the single-script IIFE has run, a request for the todos is
\* eventually sent and renderTodos eventually fills #todo-list.
C6_FetchesAndRenders ==
    (finalScope # EmptyScope) ~>
        /\ \E i \in 1..Len(reqs) : reqs[i].by = "allTodos" /\ reqs[i].sent
        /\ todoList # ul0

\* C7: running the single-script IIFE changes no global binding (url, todo,
\* renderTodos and allTodos stay as they were), whereas running
\* var todo = (function() {...})()  changes exactly the global todo, which
\* becomes the returned object.
C7_FinalIifeLeavesGlobals ==
    [][/\ LoadFinalIIFE => globals' = globals
       /\ LoadTodoIIFE =>
            /\ globals'["todo"] = Obj("todo@84")
            /\ \A n \in Names \ {"todo"} : globals'[n] = globals[n]]_vars

C7_Witness ==
    /\ finalScope # EmptyScope
    /\ finalScope["todo"] = Obj("todo@99")
    /\ todoScope # EmptyScope
    /\ globals["renderTodos"] = Undeclared
    /\ globals["allTodos"] = Undeclared
    /\ globals["url"] = Undeclared
    /\ globals["todo"] = Str("overwritten")

\* C8: a todo object built from the literal has four distinct methods, one
\* each for create, read, update and delete.
C8_FourCrudMethods ==
    globals["todo"].k = "object" => Cardinality(DOMAIN TodoProps) = 4

\* C9: renderTodos appends one li per element of todos, in index order, with
\* that element's text, and leaves the children already present in place: the
\* list is always what the document gave it followed by the items of every
\* call made, in call order.
RECURSIVE ItemsOf(_)
ItemsOf(log) ==
    IF log = <<>> THEN <<>>
    ELSE [i \in 1..Len(Head(log)) |-> Li(Head(log)[i].text)] \o ItemsOf(Tail(log))

C9_RenderAppends == todoList = ul0 \o ItemsOf(renderLog)

C9_Witness ==
    /\ ul0 = <<Li("old")>>
    /\ Len(renderLog) = 2
    /\ renderLog[1] = renderLog[2]
    /\ renderLog[1] = <<[text |-> "x"], [text |-> "y"]>>
    /\ todoList = <<Li("old"), Li("x"), Li("y"), Li("x"), Li("y")>>

\* C10: a createTodo call made while no script has defined reqListener fails
\* with a ReferenceError at line 8, its request neither opened nor sent; one
\* made while reqListener is defined returns with the request sent.
C10_NeedsReqListener ==
    [][(Created /\ Newest(reqs').by = "createTodo") =>
            IF globals["reqListener"] = Undeclared
            THEN /\ last'.result = "ReferenceError"
                 /\ Newest(reqs').log = <<"new">>
                 /\ ~Newest(reqs').sent
            ELSE /\ last'.result = "returned"
                 /\ Newest(reqs').log = FullLog
                 /\ Newest(reqs').sent]_vars

C10_Witness ==
    /\ Len(reqs) = 2
    /\ reqs[1].log = <<"new">> /\ ~reqs[1].sent /\ reqs[1].listener = ""
    /\ reqs[2].log = FullLog /\ reqs[2].sent /\ reqs[2].listener = "reqListener"
    /\ last = [fn |-> "createTodo", arg |-> "milk", result |-> "returned"]

\* the requests whose response has not arrived yet
Outstanding == {i \in 1..Len(reqs) : reqs[i].sent /\ ~reqs[i].loaded}

\* C11 (the part about outstanding requests): whatever load events have been
\* delivered, every outstanding createTodo request carries the URL built from
\* its own title.
C11_OutstandingKeepOwnUrl ==
    \A i \in Outstanding :
        reqs[i].by = "createTodo" =>
            \E prefix \in {"/todos", "/oops"} :
                reqs[i].url = prefix \o "?title=" \o reqs[i].title

\* C11: createTodo calls are independent: each makes its own request, every
\* outstanding request carries the URL built from its own title under any
\* interleaving of load events, and two calls with the same title send two
\* POST requests.
C11_CallsAreIndependent ==
    /\ C11_OutstandingKeepOwnUrl
    /\ \A i, j \in 1..Len(reqs) :
        (i < j /\ reqs[i].by = "createTodo" /\ reqs[j].by = "createTodo"
               /\ reqs[i].title = reqs[j].title) =>
            /\ reqs[i].sent /\ reqs[i].method = "POST"
            /\ reqs[j].sent /\ reqs[j].method = "POST"

====
